---- MODULE Spec2Model ----
(***************************************************************************)
(* lspipeline (cmd/lspipeline/main.go): a terminal dashboard that polls a  *)
(* pipeline's state and redraws it on a ticker until Escape is pressed.    *)
(*                                                                         *)
(* Five specifications over one set of variables:                          *)
(*   SpecLoop      renderPipelineLoop: main task, input listener, ticker   *)
(*   FairSpecLoop  the same with the scheduling fairness, ticker unbounded *)
(*   SpecTime      prettyPrintTime applied to bounded (now, t)             *)
(*   SpecEmit      emitStr applied to bounded strings                      *)
(*   SpecBox       renderMessageBox applied to bounded line lists          *)
(***************************************************************************)
EXTENDS Integers, Sequences, FiniteSets, TLC

VARIABLES
    \* ---- renderPipelineLoop ----
    s,            \* app.s: "nil" | "created" | "ready" | "fini"
    mainPc,       \* position of the main goroutine
    listenerPc,   \* position of the input goroutine: "none" | "poll" | "dispatch" | "done"
    evt,          \* the event PollEvent returned last
    quit,         \* TRUE once close(quit) has run
    tickerC,      \* ticks buffered in ticker.C (capacity 1)
    tickerOn,     \* the ticker is running (NewTicker .. Stop)
    received,     \* history: the events the listener has received
    fired,        \* history: ticker firings
    firedAtQuit,  \* history: ticker firings at the moment quit was closed (-1 before)
    taken,        \* history: ticks the loop has taken from ticker.C
    renders,      \* history: render cycles started (GetPipelineState calls)
    shows,        \* history: frames flushed (s.Show calls)
    finiCount,    \* history: s.Fini calls
    closeCount,   \* history: close(quit) calls
    lateWrite,    \* history: a write reached the screen after Fini
    \* ---- prettyPrintTime ----
    now, t,       \* the two instants, in milliseconds since the Unix epoch
    timeOut,      \* the string returned ("" before the call)
    \* ---- emitStr / renderMessageBox ----
    lines,        \* the input lines (a string is a sequence of runes)
    boxLeft, boxTop,
    style,
    cells,        \* the SetContent calls made, in order
    cursor,       \* emitStr's x after its loop
    drawn         \* the operation has run

loopVars == <<s, mainPc, listenerPc, evt, quit, tickerC, tickerOn, received,
              fired, firedAtQuit, taken, renders, shows, finiCount, closeCount,
              lateWrite>>
timeVars == <<now, t, timeOut>>
boxVars  == <<lines, boxLeft, boxTop, style, cells, cursor, drawn>>
vars     == <<loopVars, timeVars, boxVars>>

(***************************************************************************)
(* Bounds                                                                  *)
(***************************************************************************)
MaxFires  == 3   \* ticker firings counted in SpecLoop
MaxEvents == 3   \* terminal events delivered to the listener

\* The history counters of render cycles saturate just past the values they can
\* take while firings are counted, so that FairSpecLoop, whose ticker never stops,
\* stays finite.
Count(n) == IF n <= MaxFires + 1 THEN n + 1 ELSE n

\* The terminal events PollEvent can return: two keys and a non-key event.
Events == {"KeyEscape", "KeyEnter", "Resize"}

IsEventKey(e) == e \in {"KeyEscape", "KeyEnter"}

\* The outcomes of a step that can fail: a call that returns (value, err), or a
\* run-time panic.
Outcomes == {"ok", "err"}

(***************************************************************************)
(* renderPipelineLoop                                                      *)
(***************************************************************************)
InitLoop ==
    /\ s = "nil"
    /\ mainPc = "initScreen"
    /\ listenerPc = "none"
    /\ evt = "none"
    /\ quit = FALSE
    /\ tickerC = 0
    /\ tickerOn = FALSE
    /\ received = <<>>
    /\ fired = 0
    /\ firedAtQuit = -1
    /\ taken = 0
    /\ renders = 0
    /\ shows = 0
    /\ finiCount = 0
    /\ closeCount = 0
    /\ lateWrite = FALSE

\* The process is alive: main has neither returned nor panicked.
Running == mainPc \notin {"returned", "panicked"}

\* initScreen: a no-op when app.s is set; NewScreen or Init may fail and panic.
initScreen(newScreen, init) ==
    /\ mainPc = "initScreen"
    /\ IF s # "nil"
         THEN /\ mainPc' = "spawn"
              /\ s' = s
         ELSE IF newScreen = "err"
           THEN /\ mainPc' = "panicked"
                /\ s' = s
           ELSE IF init = "err"
             THEN /\ mainPc' = "panicked"
                  /\ s' = "created"
             ELSE /\ mainPc' = "spawn"
                  /\ s' = "ready"
    /\ UNCHANGED <<timeVars, boxVars, taken, listenerPc, evt, quit, tickerC, tickerOn,
                   received, fired, firedAtQuit, renders, shows, finiCount,
                   closeCount, lateWrite>>

InitScreen == \E newScreen \in Outcomes, init \in Outcomes : initScreen(newScreen, init)

\* time.NewTicker, make(chan bool), go func(): then the first renderPipeline.
Spawn ==
    /\ mainPc = "spawn"
    /\ tickerOn' = TRUE
    /\ tickerC' = 0
    /\ listenerPc' = "poll"
    /\ mainPc' = "poll"
    /\ UNCHANGED <<timeVars, boxVars, taken, s, evt, quit, received, fired, firedAtQuit,
                   renders, shows, finiCount, closeCount, lateWrite>>

\* renderPipeline, GetPipelineState: an error panics; the deferred ticker.Stop runs.
getPipelineState(result) ==
    /\ mainPc = "poll"
    /\ renders' = Count(renders)
    /\ IF result = "err"
         THEN /\ mainPc' = "panicked"
              /\ tickerOn' = FALSE
         ELSE /\ mainPc' = "draw"
              /\ tickerOn' = tickerOn
    /\ UNCHANGED <<timeVars, boxVars, taken, s, listenerPc, evt, quit, tickerC, received,
                   fired, firedAtQuit, shows, finiCount, closeCount, lateWrite>>

GetPipelineState == \E result \in Outcomes : getPipelineState(result)

\* renderPipeline: the stage boxes and the footer are written with SetContent.
\* renderPipelineStage dereferences state.ActionStates[0].LatestExecution, its
\* Status and LastStatusChange, and state.StageName unchecked: a polled state with
\* a stage that lacks one of them panics here (the deferred ticker.Stop runs),
\* after the boxes of the stages before it have been written.
draw(result) ==
    /\ mainPc = "draw"
    /\ IF result = "err"
         THEN /\ mainPc' = "panicked"
              /\ tickerOn' = FALSE
         ELSE /\ mainPc' = "show"
              /\ tickerOn' = tickerOn
    /\ lateWrite' = (lateWrite \/ s = "fini")
    /\ UNCHANGED <<timeVars, boxVars, taken, s, listenerPc, evt, quit, tickerC, received,
                   fired, firedAtQuit, renders, shows, finiCount, closeCount>>

Draw == \E result \in Outcomes : draw(result)

\* renderPipeline: app.s.Show(), then back to the select.
Show ==
    /\ mainPc = "show"
    /\ mainPc' = "select"
    /\ shows' = Count(shows)
    /\ lateWrite' = (lateWrite \/ s = "fini")
    /\ UNCHANGED <<timeVars, boxVars, taken, s, listenerPc, evt, quit, tickerC, tickerOn,
                   received, fired, firedAtQuit, renders, finiCount, closeCount>>

\* select, case <-quit: Fini, return (the deferred ticker.Stop runs).
SelectQuit ==
    /\ mainPc = "select"
    /\ quit
    /\ s' = "fini"
    /\ finiCount' = finiCount + 1
    /\ tickerOn' = FALSE
    /\ mainPc' = "returned"
    /\ UNCHANGED <<timeVars, boxVars, taken, listenerPc, evt, quit, tickerC, received,
                   fired, firedAtQuit, renders, shows, closeCount, lateWrite>>

\* SelectTick with the tick left in the channel.
SelectTickKeepsTick ==
    /\ mainPc = "select"
    /\ tickerC > 0
    /\ taken' = Count(taken)
    /\ mainPc' = "poll"
    /\ UNCHANGED <<timeVars, boxVars, s, listenerPc, evt, quit, tickerC, tickerOn,
                   received, fired, firedAtQuit, renders, shows, finiCount,
                   closeCount, lateWrite>>

\* select, case <-ticker.C: the tick is taken from the channel, renderPipeline runs.
\* Go's select picks among the ready cases at random: quit being closed does not
\* disable this case.
SelectTick ==
    /\ mainPc = "select"
    /\ tickerC > 0
    /\ tickerC' = tickerC - 1
    /\ taken' = Count(taken)
    /\ mainPc' = "poll"
    /\ UNCHANGED <<timeVars, boxVars, s, listenerPc, evt, quit, tickerOn, received,
                   fired, firedAtQuit, renders, shows, finiCount, closeCount,
                   lateWrite>>

\* The runtime's ticker: a non-blocking send on a channel of capacity 1, so a tick
\* that finds the channel full is dropped.
TickerFire ==
    /\ Running
    /\ tickerOn
    /\ fired < MaxFires
    /\ fired' = fired + 1
    /\ tickerC' = IF tickerC < 1 THEN tickerC + 1 ELSE tickerC
    /\ UNCHANGED <<timeVars, boxVars, taken, s, mainPc, listenerPc, evt, quit, tickerOn,
                   received, firedAtQuit, renders, shows, finiCount, closeCount,
                   lateWrite>>

\* The ticker keeps firing past the counted firings (FairSpecLoop only).
TickerFireOn ==
    /\ Running
    /\ tickerOn
    /\ fired = MaxFires
    /\ tickerC' = IF tickerC < 1 THEN tickerC + 1 ELSE tickerC
    /\ UNCHANGED <<timeVars, boxVars, taken, s, mainPc, listenerPc, evt, quit, tickerOn,
                   received, fired, firedAtQuit, renders, shows, finiCount,
                   closeCount, lateWrite>>

\* The listener goroutine: app.s.PollEvent() returns an event.
pollEvent(e) ==
    /\ Running
    /\ listenerPc = "poll"
    /\ Len(received) < MaxEvents
    /\ evt' = e
    /\ received' = Append(received, e)
    /\ listenerPc' = "dispatch"
    /\ UNCHANGED <<timeVars, boxVars, taken, s, mainPc, quit, tickerC, tickerOn, fired,
                   firedAtQuit, renders, shows, finiCount, closeCount, lateWrite>>

PollEvent == \E e \in Events : pollEvent(e)

\* escapeClosesQuit without the test of the key.
anyKeyClosesQuit(e) == IsEventKey(e)

\* The listener's type switch: an Escape key closes quit and returns; anything
\* else loops.
escapeClosesQuit(e) == IsEventKey(e) /\ e = "KeyEscape"

Dispatch ==
    /\ Running
    /\ listenerPc = "dispatch"
    /\ IF escapeClosesQuit(evt)
         THEN /\ quit' = TRUE
              /\ closeCount' = closeCount + 1
              /\ firedAtQuit' = fired
              /\ listenerPc' = "done"
         ELSE /\ listenerPc' = "poll"
              /\ UNCHANGED <<quit, closeCount, firedAtQuit>>
    /\ UNCHANGED <<timeVars, boxVars, taken, s, mainPc, evt, tickerC, tickerOn, received,
                   fired, renders, shows, finiCount, lateWrite>>

renderPipelineLoop ==
    \/ InitScreen
    \/ Spawn
    \/ GetPipelineState
    \/ Draw
    \/ Show
    \/ SelectQuit
    \/ SelectTick
    \/ TickerFire
    \/ PollEvent
    \/ Dispatch


(***************************************************************************)
(* prettyPrintTime                                                         *)
(***************************************************************************)
MaxNowSec == 1960   \* now ranges over 0 .. MaxNowSec seconds (and halves)
AheadSec  == 90     \* t lies this many seconds after the epoch

MsPerSecond == 1000
MsPerMinute == 60 * MsPerSecond

\* int(f) of a float64: truncation toward zero.
Quot(a, b) == IF a >= 0 THEN a \div b ELSE -((-a) \div b)

\* now.Sub(*t), a Duration (here in milliseconds).
Sub(a, b) == a - b

\* int(diff.Minutes()) and int(diff.Seconds()).
Minutes(d) == Quot(d, MsPerMinute)
Seconds(d) == Quot(d, MsPerSecond)

Digit(d) ==
    CASE d = 0 -> "0" [] d = 1 -> "1" [] d = 2 -> "2" [] d = 3 -> "3" [] d = 4 -> "4"
      [] d = 5 -> "5" [] d = 6 -> "6" [] d = 7 -> "7" [] d = 8 -> "8" [] d = 9 -> "9"

RECURSIVE Digits(_)
Digits(n) == IF n < 10 THEN Digit(n) ELSE Digits(n \div 10) \o Digit(n % 10)

\* fmt's %d.
Itoa(n) == IF n < 0 THEN "-" \o Digits(-n) ELSE Digits(n)

\* A two-digit, zero-padded field of a time layout (15, 04, 05, 02, 01).
Pad2(n) == IF n < 10 THEN "0" \o Digits(n) ELSE Digits(n)

\* time.Local, as an offset from UTC in seconds: the model runs in UTC.
LocalOffsetSec == 0

\* t.In(time.Local).Format(dateFormat), dateFormat = "15:04:05 02-01-2006 PT":
\* hour:minute:second day-month-year and the literal " PT" ("PT" is no layout
\* element).  The date is the civil date of the day count since 1970-01-01.
Format(ms) ==
    LET secs  == (ms \div MsPerSecond) + LocalOffsetSec
        days  == secs \div 86400
        rem   == secs % 86400
        z     == days + 719468
        era   == z \div 146097
        doe   == z - era * 146097
        yoe   == (doe - doe \div 1460 + doe \div 36524 - doe \div 146096) \div 365
        doy   == doe - (365 * yoe + yoe \div 4 - yoe \div 100)
        mp    == (5 * doy + 2) \div 153
        day   == doy - (153 * mp + 2) \div 5 + 1
        month == IF mp < 10 THEN mp + 3 ELSE mp - 9
        year  == yoe + era * 400 + (IF month <= 2 THEN 1 ELSE 0)
    IN  Pad2(rem \div 3600) \o ":" \o Pad2((rem % 3600) \div 60) \o ":" \o Pad2(rem % 60)
        \o " " \o Pad2(day) \o "-" \o Pad2(month) \o "-" \o Itoa(year) \o " PT"

\* The seconds printed after the minutes: the whole duration in seconds.
minutesBranchSeconds(diff) == Seconds(diff)

prettyPrintTime(n, tt) ==
    LET diff    == Sub(n, tt)
        minutes == Minutes(diff)
        seconds == minutesBranchSeconds(diff)
    IN  IF minutes >= 30
          THEN Format(tt)
          ELSE IF minutes > 0
            THEN Itoa(minutes) \o " minutes, " \o Itoa(seconds) \o " seconds ago"
            ELSE Itoa(Seconds(diff)) \o " seconds ago"

\* The instants tried: now at every half second of 0 .. MaxNowSec, t at AheadSec
\* seconds and a quarter second later, so now - t runs from -AheadSec seconds
\* (t in the future) to past 30 minutes.
NowSet == {sec * MsPerSecond + frac : sec \in 0..MaxNowSec, frac \in {0, 500}}
TSet   == {AheadSec * MsPerSecond, AheadSec * MsPerSecond + 250}

TimeIdle == now = 0 /\ t = 0 /\ timeOut = ""

InitTime ==
    /\ now \in NowSet
    /\ t \in TSet
    /\ timeOut = ""

PrettyPrintTime ==
    /\ timeOut = ""
    /\ timeOut' = prettyPrintTime(now, t)
    /\ UNCHANGED <<now, t, loopVars, boxVars>>


(***************************************************************************)
(* emitStr                                                                 *)
(*                                                                         *)
(* A rune is its code point; a Go string is the sequence of its runes.     *)
(***************************************************************************)
MaxStrLen == 3    \* runes in a string given to emitStr

Space == 32   \* ' '

\* The box glyphs.
tl == 9556   \* U+2554
tr == 9559   \* U+2557
vt == 9553   \* U+2551
hz == 9552   \* U+2550
bl == 9562   \* U+255A
br == 9565   \* U+255D

\* The bytes of a rune in UTF-8, and len(str) of a string.
Utf8Len(c) == IF c < 128 THEN 1 ELSE IF c < 2048 THEN 2 ELSE IF c < 65536 THEN 3 ELSE 4

RECURSIVE len(_)
len(str) == IF str = <<>> THEN 0 ELSE Utf8Len(Head(str)) + len(Tail(str))

\* runewidth.RuneWidth outside an East Asian locale, on the ranges used here:
\* control characters and combining marks are 0, CJK ideographs 2, the rest 1.
RuneWidth(c) ==
    IF c < 32 \/ (c >= 127 /\ c < 160) THEN 0
    ELSE IF c >= 768 /\ c <= 879 THEN 0
    ELSE IF c >= 19968 /\ c <= 40959 THEN 2
    ELSE 1

\* One iteration's SetContent(x, y, c, comb, style): a zero-width rune is put,
\* as a combining rune, on a space in a cell of its own.
setContent(x, y, c, st) ==
    IF RuneWidth(c) = 0
      THEN [x |-> x, y |-> y, c |-> Space, comb |-> <<c>>, style |-> st]
      ELSE [x |-> x, y |-> y, c |-> c, comb |-> <<>>, style |-> st]

\* One iteration's x += w.
advance(c) == IF RuneWidth(c) = 0 THEN 1 ELSE RuneWidth(c)

\* emitStr's loop: the calls made and the x it ends with.
RECURSIVE emitLoop(_, _, _, _, _)
emitLoop(x, y, st, str, out) ==
    IF str = <<>>
      THEN [x |-> x, out |-> out]
      ELSE emitLoop(x + advance(Head(str)), y, st, Tail(str),
                    Append(out, setContent(x, y, Head(str), st)))

emitStr(x, y, st, str) == emitLoop(x, y, st, str, <<>>)

RECURSIVE StringsUpTo(_, _)
StringsUpTo(alphabet, n) ==
    IF n = 0 THEN {<<>>}
    ELSE LET shorter == StringsUpTo(alphabet, n - 1)
         IN  shorter \cup {Append(str, c) : str \in shorter, c \in alphabet}

\* The runes tried: 'A' (U+0041: one byte, one cell), e-acute (U+00E9: two bytes,
\* one cell), the combining acute accent (U+0301: two bytes, zero width) and a
\* CJK ideograph (U+4E16: three bytes, two cells).
EmitAlphabet == {65, 233, 769, 19990}
Styles == {"default", "green"}

BoxIdle ==
    /\ lines = <<>>
    /\ boxLeft = 0
    /\ boxTop = 0
    /\ style = "default"
    /\ cells = <<>>
    /\ cursor = 0
    /\ drawn = FALSE

InitEmit ==
    /\ lines \in {<<str>> : str \in StringsUpTo(EmitAlphabet, MaxStrLen)}
    /\ boxLeft \in {0, 2}
    /\ boxTop \in {0, 1}
    /\ style \in Styles
    /\ cells = <<>>
    /\ cursor = boxLeft
    /\ drawn = FALSE

EmitStr ==
    /\ ~drawn
    /\ LET r == emitStr(boxLeft, boxTop, style, lines[1])
       IN  /\ cells' = r.out
           /\ cursor' = r.x
    /\ drawn' = TRUE
    /\ UNCHANGED <<lines, boxLeft, boxTop, style, loopVars, timeVars>>

(***************************************************************************)
(* renderMessageBox                                                        *)
(***************************************************************************)
MaxLines   == 3   \* lines in a box
MaxLineLen == 2   \* runes in a line of a box

boxSidePadding == 4

\* The first loop: boxWidth after the lines seen so far.
RECURSIVE boxWidthLoop(_, _)
boxWidthLoop(ls, boxWidth) ==
    IF ls = <<>> THEN boxWidth
    ELSE boxWidthLoop(Tail(ls),
                      IF len(Head(ls)) > boxWidth - boxSidePadding
                        THEN len(Head(ls)) + boxSidePadding
                        ELSE boxWidth)

computeBoxWidth(ls) == boxWidthLoop(ls, 0)

\* n copies of rune c (none when n <= 0).
Repeat(c, n) == [i \in 1..n |-> c]

topBorder(boxWidth)    == <<tl>> \o Repeat(hz, boxWidth - 2) \o <<tr>>
bottomBorder(boxWidth) == <<bl>> \o Repeat(hz, boxWidth - 2) \o <<br>>

\* leftSpacePad with the half rounded up.
leftSpacePadRoundedUp(boxWidth, line) ==
    (boxWidth - len(line) - boxSidePadding + 1) \div 2 + 1

leftSpacePad(boxWidth, line) == (boxWidth - len(line) - boxSidePadding) \div 2 + 1

rightSpacePad(boxWidth, line) == boxWidth - len(line) - leftSpacePad(boxWidth, line) - 2

renderLine(boxWidth, line) ==
    <<vt>> \o Repeat(Space, leftSpacePad(boxWidth, line)) \o line
           \o Repeat(Space, rightSpacePad(boxWidth, line)) \o <<vt>>

\* The last loop: renderLines[i] is emitted at boxTop+i+1 (i from 0).
RECURSIVE emitLines(_, _, _, _, _)
emitLines(rls, i, left, top, st) ==
    IF i > Len(rls) THEN <<>>
    ELSE emitStr(left, top + (i - 1) + 1, st, rls[i]).out
         \o emitLines(rls, i + 1, left, top, st)

renderMessageBox(ls, left, top, st) ==
    LET boxWidth    == computeBoxWidth(ls)
        renderLines == [i \in 1..Len(ls) |-> renderLine(boxWidth, ls[i])]
    IN  emitStr(left, top, st, topBorder(boxWidth)).out
        \o emitLines(renderLines, 1, left, top, st)
        \o emitStr(left, top + Len(renderLines) + 1, st, bottomBorder(boxWidth)).out

RECURSIVE ListsUpTo(_, _)
ListsUpTo(S, n) ==
    IF n = 0 THEN {<<>>}
    ELSE LET shorter == ListsUpTo(S, n - 1)
         IN  shorter \cup {Append(l, e) : l \in shorter, e \in S}

\* The runes of box lines: 'A' and e-acute.
BoxAlphabet == {65, 233}

InitBox ==
    /\ lines \in ListsUpTo(StringsUpTo(BoxAlphabet, MaxLineLen), MaxLines)
    /\ boxLeft \in {0, 2}
    /\ boxTop = 1
    /\ style = "green"
    /\ cells = <<>>
    /\ cursor = 0
    /\ drawn = FALSE

RenderMessageBox ==
    /\ ~drawn
    /\ cells' = renderMessageBox(lines, boxLeft, boxTop, style)
    /\ drawn' = TRUE
    /\ UNCHANGED <<lines, boxLeft, boxTop, style, cursor, loopVars, timeVars>>

(***************************************************************************)
(* Specifications                                                          *)
(***************************************************************************)
\* Each specification starts its own part and holds the others idle.
LoopInit == InitLoop /\ TimeIdle /\ BoxIdle
TimeInit == InitTime /\ InitLoop /\ BoxIdle
EmitInit == InitEmit /\ InitLoop /\ TimeIdle
BoxInit  == InitBox /\ InitLoop /\ TimeIdle

SpecLoop == LoopInit /\ [][renderPipelineLoop]_vars

\* The scheduler runs each goroutine that can step; the select's choice among
\* ready cases is uniformly random, so a case that is ready again and again
\* is taken.  The ticker is under no obligation and never stops by itself.
FairLoopNext == renderPipelineLoop \/ TickerFireOn
FairSpecLoop ==
    /\ LoopInit
    /\ [][FairLoopNext]_vars
    /\ WF_vars(InitScreen \/ Spawn \/ GetPipelineState \/ Draw \/ Show)
    /\ WF_vars(Dispatch)
    /\ SF_vars(SelectQuit)

SpecTime == TimeInit /\ [][PrettyPrintTime]_vars

SpecEmit == EmitInit /\ [][EmitStr]_vars

SpecBox == BoxInit /\ [][RenderMessageBox]_vars


(***************************************************************************)
(* Properties of renderPipelineLoop                                        *)
(***************************************************************************)
EscapeReceived == \E i \in DOMAIN received : received[i] = "KeyEscape"

\* C1, as stated: when the loop has returned, the number of render cycles equals
\* the number of ticker firings that happened before quit was closed.
C1_RendersEqualFiringsBeforeCancel ==
    mainPc = "returned" => (renders = firedAtQuit /\ shows = firedAtQuit)

\* C1, amended: the render cycles started are the first frame plus one per tick
\* the loop has taken from the ticker channel, and the ticks taken never exceed
\* the ticker firings so far, fired before or after quit was closed; when the loop
\* has returned, every cycle started has been flushed and Fini has run once.
C1_RendersAreFirstFramePlusTicksTaken ==
    /\ mainPc = "poll" => renders = taken
    /\ mainPc \in {"draw", "show", "select", "returned"} => renders = 1 + taken
    /\ taken <= fired
    /\ renders <= 1 + fired
    /\ mainPc = "returned" => (shows = renders /\ finiCount = 1)

\* Two firings before quit was closed and a third after it, all three taken: the
\* loop has returned after four render cycles.
C1_Witness ==
    /\ mainPc = "returned"
    /\ firedAtQuit = 2
    /\ fired = 3
    /\ taken = 3
    /\ renders = 4
    /\ shows = 4

\* C2: at the select with quit closed and a tick buffered, the main goroutine's
\* step is the quit case: it never goes on to poll for another render.
C2_CancelWinsWhenBothReady ==
    [][(mainPc = "select" /\ quit /\ tickerC > 0) => mainPc' # "poll"]_vars

\* C3: a run that ends (return or panic) after the screen was initialized has
\* finalized it exactly once, and nothing was written to it after that.
C3_FinalizedExactlyOnceAtEnd ==
    (~Running /\ s \in {"ready", "fini"}) => (finiCount = 1 /\ s = "fini" /\ ~lateWrite)

\* C4: the loop finalizes and returns only after the listener received an Escape
\* key and closed quit; quit is closed at most once, and only for Escape.
C4_TerminatedOnlyByEscape ==
    /\ (mainPc = "returned" \/ finiCount > 0 \/ s = "fini") => (quit /\ EscapeReceived)
    /\ quit => (EscapeReceived /\ closeCount = 1)
    /\ closeCount <= 1
    /\ finiCount <= 1

\* The loop has returned after an Enter key, a resize and then Escape, with the
\* ticker having fired.
C4_Witness ==
    /\ mainPc = "returned"
    /\ received = <<"KeyEnter", "Resize", "KeyEscape">>
    /\ fired >= 1
    /\ finiCount = 1

\* C10: once the listener holds an Escape key event, the loop finalizes the screen
\* and returns, and the listener has ended.
C10_EscapeLeadsToReturn ==
    (listenerPc = "dispatch" /\ evt = "KeyEscape")
      ~> (mainPc = "returned" /\ s = "fini" /\ listenerPc = "done")

(***************************************************************************)
(* Properties of prettyPrintTime                                           *)
(***************************************************************************)
\* C5: for 1 minute <= now - t < 30 minutes the result is
\* "<M> minutes, <S> seconds ago", M the whole minutes and S the remaining seconds.
C5_MinutesAndRemainingSeconds ==
    (timeOut # "" /\ now - t >= MsPerMinute /\ now - t < 30 * MsPerMinute)
      => LET total == (now - t) \div MsPerSecond
         IN  timeOut = Itoa(total \div 60) \o " minutes, " \o Itoa(total % 60)
                       \o " seconds ago"

\* C6: the "<S> seconds ago" form (returned when now - t is under a minute) carries
\* the whole seconds elapsed, within 0..59, and 0 when t is later than now.
C6_SecondsWithinRange ==
    (timeOut # "" /\ now - t < MsPerMinute)
      => LET elapsed == IF now - t < 0 THEN 0 ELSE (now - t) \div MsPerSecond
         IN  /\ elapsed \in 0..59
             /\ timeOut = Itoa(elapsed) \o " seconds ago"

(***************************************************************************)
(* Properties of emitStr and renderMessageBox                              *)
(***************************************************************************)
RECURSIVE SumOver(_, _)
SumOver(f(_), sq) == IF sq = <<>> THEN 0 ELSE f(Head(sq)) + SumOver(f, Tail(sq))

RECURSIVE MaxOver(_, _)
MaxOver(f(_), sq) ==
    IF sq = <<>> THEN 0
    ELSE LET rest == MaxOver(f, Tail(sq))
         IN  IF f(Head(sq)) > rest THEN f(Head(sq)) ELSE rest

BaseRunes(str) == SelectSeq(str, LAMBDA c : RuneWidth(c) > 0)

\* C7: for a string that starts with a base rune (so every zero-width rune has a
\* preceding cell), emitStr moves the cursor by the widths of the base runes only,
\* and a zero-width rune gets no cell of its own.
C7_CursorAdvancesByBaseWidths ==
    (drawn /\ lines[1] # <<>> /\ RuneWidth(lines[1][1]) > 0)
      => /\ cursor - boxLeft = SumOver(RuneWidth, lines[1])
         /\ Len(cells) = Len(BaseRunes(lines[1]))

\* The cells of row y, in the order written, and the columns they cover.
RowCells(y) == SelectSeq(cells, LAMBDA c : c.y = y)
Covered(y) ==
    UNION {cells[i].x .. (cells[i].x + RuneWidth(cells[i].c) - 1) :
             i \in {j \in DOMAIN cells : cells[j].y = y}}
RowsWritten == {cells[i].y : i \in DOMAIN cells}
RightGlyphAt(y, col) ==
    LET row == RowCells(y)
    IN  row # <<>> /\ row[Len(row)].x = col /\ row[Len(row)].c \in {tr, vt, br}

\* C8: for N >= 1 lines the box is a rectangle of N+2 rows, each covering exactly the W columns
\* from boxLeft, W being the longest line's length (in bytes or in runes) plus 4,
\* with the right border glyph in the last of them.
C8_BoxIsRectangle ==
    (drawn /\ Len(lines) >= 1) =>
      \E W \in {MaxOver(len, lines) + 4, MaxOver(Len, lines) + 4} :
        /\ RowsWritten = boxTop .. (boxTop + Len(lines) + 1)
        /\ \A y \in RowsWritten :
             /\ Covered(y) = boxLeft .. (boxLeft + W - 1)
             /\ RightGlyphAt(y, boxLeft + W - 1)

\* The padding spaces written in content row i before and after the line's text.
IsPad(c) == c.c = Space /\ c.comb = <<>>
RECURSIVE CountPad(_, _, _)
CountPad(row, i, step) ==
    IF i < 1 \/ i > Len(row) THEN 0
    ELSE IF ~IsPad(row[i]) THEN 0
    ELSE 1 + CountPad(row, i + step, step)
LeftPad(i)  == CountPad(RowCells(boxTop + i), 2, 1)
RightPad(i) == CountPad(RowCells(boxTop + i), Len(RowCells(boxTop + i)) - 1, -1)
ContentRows == {i \in DOMAIN lines : lines[i] # <<>>}

\* C9, as stated: the space counts differ by at most one and an odd leftover
\* puts the extra space on the left of the text.
C9_ExtraSpaceOnLeft ==
    drawn => \A i \in ContentRows :
               /\ LeftPad(i) - RightPad(i) \in {-1, 0, 1}
               /\ (LeftPad(i) + RightPad(i)) % 2 = 1 => LeftPad(i) = RightPad(i) + 1

\* C9, amended: the space counts differ by at most one and an odd leftover puts
\* the extra space on the right of the text (the left count is the truncated half).
C9_ExtraSpaceOnRight ==
    drawn => \A i \in ContentRows :
               /\ LeftPad(i) >= 1
               /\ RightPad(i) - LeftPad(i) \in {0, 1}
               /\ (LeftPad(i) + RightPad(i)) % 2 = 1 => RightPad(i) = LeftPad(i) + 1

\* A box of "A" over "AA" has been drawn: the first row's leftover is odd.
C9_Witness ==
    /\ drawn
    /\ lines = <<<<65>>, <<65, 65>>>>
    /\ LeftPad(1) = 1
    /\ RightPad(1) = 2

====
